---- MODULE Spec2Model ----
(***************************************************************************)
(* Model of the thumbnail engine of vxsky (src/src/processing.rs).         *)
(*                                                                         *)
(* An image is modelled by what the layout code reads of it: its width and *)
(* height.  A bitmap produced by the engine additionally records which     *)
(* input it was made from (tag), the sequence of resampling steps applied  *)
(* to it, and the rectangle inside it that holds resampled content (the    *)
(* rest is transparent).  Pixel values are not modelled.                    *)
(*                                                                         *)
(* The f64 arithmetic of scale_image_iterable is modelled bit-exactly      *)
(* (IEEE-754 binary64, round to nearest even) on multi-limb naturals,      *)
(* because the `as u32` truncation makes the scaled size depend on the     *)
(* last bit of the rounded quotient/product.                               *)
(***************************************************************************)
EXTENDS Integers, Sequences, FiniteSets, TLC

\* The element of a one-element set.  Only({ e(x) : x \in {v} }) evaluates v
\* once and names its value x in e.
Only(S) == CHOOSE x \in S : TRUE

(***************************************************************************)
(* Multi-limb naturals: 5 limbs in base 2^15, least significant first.     *)
(* They hold the 53-bit significands and the intermediate quotients and    *)
(* products (all below 2^75).                                              *)
(***************************************************************************)
LimbBase == 32768

\* Carry propagation: limbs may come in as any integers (also negative ones,
\* after a subtraction) as long as the number they stand for is a natural.
BigNorm(limbs) ==
    Only({ Only({ Only({ Only({
        << l[1] % LimbBase, t2 % LimbBase, t3 % LimbBase, t4 % LimbBase,
           l[5] + (t4 \div LimbBase) >>
        : t4 \in {l[4] + (t3 \div LimbBase)} })
        : t3 \in {l[3] + (t2 \div LimbBase)} })
        : t2 \in {l[2] + (l[1] \div LimbBase)} })
        : l \in {limbs} })

BigOfInt(n) == BigNorm(<< n, 0, 0, 0, 0 >>)

BigZero == << 0, 0, 0, 0, 0 >>

BigAddSmall(a, k) == BigNorm([i \in 1..5 |-> IF i = 1 THEN a[i] + k ELSE a[i]])

BigSub(a, b) == BigNorm([i \in 1..5 |-> a[i] - b[i]])

BigMulSmall(a, k) == BigNorm([i \in 1..5 |-> a[i] * k])

\* a >= b
BigGeq(x, y) ==
    Only({ IF a[5] # b[5] THEN a[5] > b[5]
           ELSE IF a[4] # b[4] THEN a[4] > b[4]
           ELSE IF a[3] # b[3] THEN a[3] > b[3]
           ELSE IF a[2] # b[2] THEN a[2] > b[2]
           ELSE a[1] >= b[1]
           : a \in {x}, b \in {y} })

\* Quotient and remainder of x by a small k (0 < k <= LimbBase).
BigDivModSmall(x, k) ==
    Only({ Only({ Only({ Only({ Only({
        [q |-> << n1 \div k, n2 \div k, n3 \div k, n4 \div k, a[5] \div k >>,
         r |-> n1 % k]
        : n1 \in {(n2 % k) * LimbBase + a[1]} })
        : n2 \in {(n3 % k) * LimbBase + a[2]} })
        : n3 \in {(n4 % k) * LimbBase + a[3]} })
        : n4 \in {(a[5] % k) * LimbBase + a[4]} })
        : a \in {x} })

RECURSIVE Pow2(_)
Pow2(n) == IF n = 0 THEN 1 ELSE 2 * Pow2(n - 1)

RECURSIVE IntBitLen(_)
IntBitLen(n) == IF n = 0 THEN 0 ELSE 1 + IntBitLen(n \div 2)

BigBitLen(x) ==
    Only({ IF a[5] # 0 THEN 60 + IntBitLen(a[5])
           ELSE IF a[4] # 0 THEN 45 + IntBitLen(a[4])
           ELSE IF a[3] # 0 THEN 30 + IntBitLen(a[3])
           ELSE IF a[2] # 0 THEN 15 + IntBitLen(a[2])
           ELSE IntBitLen(a[1])
           : a \in {x} })

\* a * 2^n
RECURSIVE BigShl(_, _)
BigShl(x, n) ==
    Only({ IF n = 0 THEN a
           ELSE IF n >= 15 THEN BigShl(<< 0, a[1], a[2], a[3], a[4] >>, n - 15)
           ELSE BigMulSmall(a, Pow2(n))
           : a \in {x} })

\* floor(a / 2^n) and whether any nonzero bit was shifted out
RECURSIVE BigShr(_, _)
BigShr(x, n) ==
    Only({ IF n = 0 THEN [q |-> a, lost |-> FALSE]
           ELSE IF n >= 15
                THEN Only({ [q |-> rest.q, lost |-> rest.lost \/ a[1] # 0]
                            : rest \in {BigShr(<< a[2], a[3], a[4], a[5], 0 >>, n - 15)} })
           ELSE Only({ [q |-> d.q, lost |-> d.r # 0]
                       : d \in {BigDivModSmall(a, Pow2(n))} })
           : a \in {x} })

\* The value of a multi-limb natural below 2^30 as an integer.
BigToInt(a) == Only({ v[1] + LimbBase * v[2] : v \in {a} })

(***************************************************************************)
(* IEEE-754 binary64 values that are positive, finite and normal:          *)
(* [m, e] stands for m * 2^e with 2^52 <= m < 2^53.                        *)
(***************************************************************************)
\* Round q * 2^e (plus a nonzero fraction below the last bit of q when sticky)
\* to 53 significant bits, ties to even.
F64Round(q, e, sticky) ==
    Only({ IF len <= 53
           THEN [m |-> BigShl(v, 53 - len), e |-> e - (53 - len)]
           ELSE Only({ Only({ Only({
                    IF BigBitLen(r) = 54
                    THEN [m |-> BigDivModSmall(r, 2).q, e |-> e + (len - 53) + 1]
                    ELSE [m |-> r, e |-> e + (len - 53)]
                    : r \in { IF s1.q[1] % 2 = 1 /\ (s1.lost \/ sticky \/ t[1] % 2 = 1)
                              THEN BigAddSmall(t, 1) ELSE t } })
                    : t \in {BigDivModSmall(s1.q, 2).q} })
                    : s1 \in {BigShr(v, len - 53 - 1)} })
           : v \in {q}, len \in {BigBitLen(q)} })

\* `n as f64` for a u32 n >= 1 (exact).
F64FromU32(n) == F64Round(BigOfInt(n), 0, FALSE)

\* One digit of schoolbook long division in base 2^15 (Knuth's algorithm D):
\* the quotient digit and remainder of r * 2^15 by d, for r < d and d's top
\* limb (limb 4) at least 2^14, which keeps the trial digit within 2 of the
\* true one.
DivDigit(r, d) ==
    Only({ Only({ Only({
        [q |-> q, r |-> BigSub(n, BigMulSmall(d, q))]
        : q \in { IF BigGeq(n, BigMulSmall(d, hat)) THEN hat
                  ELSE IF BigGeq(n, BigMulSmall(d, hat - 1)) THEN hat - 1
                  ELSE hat - 2 } })
        : hat \in { IF (n[5] * LimbBase + n[4]) \div d[4] >= LimbBase
                    THEN LimbBase - 1
                    ELSE (n[5] * LimbBase + n[4]) \div d[4] } })
        : n \in {<< 0, r[1], r[2], r[3], r[4] >>} })

\* x / y, correctly rounded: floor(x.m * 2^60 / y.m) by long division, then
\* rounded to 53 bits with the remainder as sticky bit.
F64Div(x, y) ==
    Only({ Only({ Only({ Only({ Only({ Only({ Only({
        F64Round(<< s4.q, s3.q, s2.q, s1.q, q0 >>, a.e - b.e - 60, s4.r # BigZero)
        : s4 \in {DivDigit(s3.r, d)} })
        : s3 \in {DivDigit(s2.r, d)} })
        : s2 \in {DivDigit(s1.r, d)} })
        : s1 \in {DivDigit(IF q0 = 1 THEN BigSub(n, d) ELSE n, d)} })
        : q0 \in {IF BigGeq(n, d) THEN 1 ELSE 0} })
        : n \in {BigShl(a.m, 7)}, d \in {BigShl(b.m, 7)} })
        : a \in {x}, b \in {y} })

\* x * y, correctly rounded, for x an integer below 2^15 times a power of two
\* (the only products the program forms are `target_height as f64 * ratio`).
F64Mul(x, y) ==
    Only({ Only({ F64Round(BigMulSmall(b.m, k), a.e + 38 + b.e, FALSE)
                  : k \in {BigToInt(BigShr(a.m, 38).q)} })
           : a \in {x}, b \in {y} })

F64Gt(x, y) ==
    Only({ \/ a.e > b.e
           \/ a.e = b.e /\ a.m # b.m /\ BigGeq(a.m, b.m)
           : a \in {x}, b \in {y} })

\* `x as u32`: truncation toward zero (values stay below 2^30 here, so the
\* saturation at u32::MAX never applies).
F64ToU32(x) ==
    Only({ IF v.e >= 0 THEN BigToInt(BigShl(v.m, v.e))
           ELSE IF -v.e >= 75 THEN 0
           ELSE BigToInt(BigShr(v.m, -v.e).q)
           : v \in {x} })

(***************************************************************************)
(* Images and bitmaps (DynamicImage).  A bitmap records its size, the      *)
(* input it was made from (tag; 0 for a blank canvas), the resampling      *)
(* steps applied to it, and the bitmaps overlaid on it with their offsets. *)
(***************************************************************************)
\* A decoded input image: the tag is its position in the input collection.
Image(w, h, tag) ==
    [w |-> w, h |-> h, tag |-> tag, steps |-> << >>, layers |-> << >>]

\* DynamicImage::new_rgba8(w, h): a transparent canvas.
new_rgba8(w, h) == Image(w, h, 0)

\* imageops::overlay(bottom, top, x, y)
overlay(bottom, top, x, y) ==
    [bottom EXCEPT !.layers = Append(@, [img |-> top, x |-> x, y |-> y])]

\* image.resize_exact(nw, nh, filter)
resize_exact(image, nw, nh, filter) ==
    [image EXCEPT !.w = nw, !.h = nh,
                  !.steps = Append(@, [op |-> "resize", filter |-> filter,
                                       from |-> << image.w, image.h >>,
                                       to |-> << nw, nh >>, at |-> << 0, 0 >>])]

\* image.blur(sigma): same size, every pixel a mix of its neighbourhood.
blur(image, sigma) ==
    [image EXCEPT !.steps = Append(@, [op |-> "blur", filter |-> sigma,
                                       from |-> << image.w, image.h >>,
                                       to |-> << image.w, image.h >>,
                                       at |-> << 0, 0 >>])]

\* new_rgba8(w, h) with the single bitmap `top` overlaid at (x, y): kept as
\* one bitmap of the same input, with the padding recorded as a step.
PasteOnNew(top, w, h, x, y) ==
    [top EXCEPT !.w = w, !.h = h,
                !.steps = Append(@, [op |-> "pad", filter |-> "none",
                                     from |-> << top.w, top.h >>,
                                     to |-> << w, h >>, at |-> << x, y >>])]

\* The pad branch with the comparison turned round: the scaled image covers
\* the target instead of fitting in it.
LetterboxSize_cover(width, height, target_width, target_height) ==
    Only({ IF F64Gt(target_ratio, aspect_ratio)
           THEN << target_width, F64ToU32(F64Div(tw, aspect_ratio)) >>
           ELSE << F64ToU32(F64Mul(th, aspect_ratio)), target_height >>
           : aspect_ratio \in {F64Div(F64FromU32(width), F64FromU32(height))},
             tw \in {F64FromU32(target_width)},
             th \in {F64FromU32(target_height)},
             target_ratio \in {F64Div(F64FromU32(target_width),
                                      F64FromU32(target_height))} })

\* The pad branch multiplying by the aspect ratio where it should divide.
LetterboxSize_times_ratio(width, height, target_width, target_height) ==
    Only({ IF F64Gt(aspect_ratio, target_ratio)
           THEN << target_width, F64ToU32(F64Mul(tw, aspect_ratio)) >>
           ELSE << F64ToU32(F64Mul(th, aspect_ratio)), target_height >>
           : aspect_ratio \in {F64Div(F64FromU32(width), F64FromU32(height))},
             tw \in {F64FromU32(target_width)},
             th \in {F64FromU32(target_height)},
             target_ratio \in {F64Div(F64FromU32(target_width),
                                      F64FromU32(target_height))} })

\* The (new_width, new_height) of the pad branch.
LetterboxSize(width, height, target_width, target_height) ==
    Only({ IF F64Gt(aspect_ratio, target_ratio)
           THEN << target_width, F64ToU32(F64Div(tw, aspect_ratio)) >>
           ELSE << F64ToU32(F64Mul(th, aspect_ratio)), target_height >>
           : aspect_ratio \in {F64Div(F64FromU32(width), F64FromU32(height))},
             tw \in {F64FromU32(target_width)},
             th \in {F64FromU32(target_height)},
             target_ratio \in {F64Div(F64FromU32(target_width),
                                      F64FromU32(target_height))} })

\* a - b on u32.  When b > a the subtraction overflows: a debug build panics
\* and a release build wraps, so no single value is the result; Underflow
\* marks that outcome.
Underflow == -1

U32Sub(a, b) == IF a >= b THEN a - b ELSE Underflow

U32Half(a) == IF a = Underflow THEN Underflow ELSE a \div 2

scale_image_iterable(image, target_width, target_height, pad) ==
    IF pad
    THEN Only({ LET new_width  == size[1]
                    new_height == size[2]
                    resized    == resize_exact(image, new_width, new_height, "Lanczos3")
                    x          == U32Half(U32Sub(target_width, new_width))
                    y          == U32Half(U32Sub(target_height, new_height))
                IN  PasteOnNew(resized, target_width, target_height, x, y)
                : size \in {LetterboxSize(image.w, image.h, target_width,
                                          target_height)} })
    ELSE resize_exact(image, target_width, target_height, "Gaussian")

(***************************************************************************)
(* Results: Ok(v) or Err(e).                                               *)
(***************************************************************************)
Ok(v) == [ok |-> TRUE, val |-> v, err |-> "none"]

Err(e) == [ok |-> FALSE, val |-> << >>, err |-> e]

(***************************************************************************)
(* Reference image.  rayon's max_by_key maps every item to (key, item) and *)
(* reduces with max_key, which keeps its left operand only when that one   *)
(* is strictly greater.  Sides stay below 2^15 here, so the u32 product    *)
(* width * height does not overflow.                                        *)
(***************************************************************************)
PixelKey(img) == img.w * img.h

\* max_key keeping its left operand on equal keys.
max_key_first_wins(x, y) ==
    Only({ IF a[1] >= b[1] THEN a ELSE b : a \in {x}, b \in {y} })

max_key(x, y) == Only({ IF a[1] > b[1] THEN a ELSE b : a \in {x}, b \in {y} })

\* The (key, index) pairs the reduction starts from.
KeyedItems(imgs) == [i \in 1..Len(imgs) |-> << PixelKey(imgs[i]), i >>]

\* Left-to-right reduction of a non-empty sequence of pairs.
RECURSIVE ReduceWith(_)
ReduceWith(pairs) ==
    Only({ IF Len(ps) = 1 THEN ps[1]
           ELSE max_key(ReduceWith(SubSeq(ps, 1, Len(ps) - 1)), ps[Len(ps)])
           : ps \in {pairs} })

\* The index of the chosen image, or CouldNotFindMostPixels.
find_img_with_most_pixels(imgs) ==
    IF Len(imgs) = 0 THEN Err("CouldNotFindMostPixels")
    ELSE Ok(ReduceWith(KeyedItems(imgs))[2])

\* get_total_img_size giving three or more images the canvas of two.
get_total_img_size_wide_only(imgs) ==
    Only({ IF ~max_image.ok THEN Err(max_image.err)
           ELSE LET width  == imgs[max_image.val].w
                    height == imgs[max_image.val].h
                IN  Ok(CASE Len(imgs) = 1 -> << width, height >>
                         [] OTHER         -> << width * 2, height >>)
           : max_image \in {find_img_with_most_pixels(imgs)} })

\* get_total_img_size doubling the width for every count.
get_total_img_size_single_doubled(imgs) ==
    Only({ IF ~max_image.ok THEN Err(max_image.err)
           ELSE LET width  == imgs[max_image.val].w
                    height == imgs[max_image.val].h
                IN  Ok(CASE Len(imgs) <= 2 -> << width * 2, height >>
                         [] OTHER          -> << width * 2, height * 2 >>)
           : max_image \in {find_img_with_most_pixels(imgs)} })

get_total_img_size(imgs) ==
    Only({ IF ~max_image.ok THEN Err(max_image.err)
           ELSE LET width  == imgs[max_image.val].w
                    height == imgs[max_image.val].h
                IN  Ok(CASE Len(imgs) = 1 -> << width, height >>
                         [] Len(imgs) = 2 -> << width * 2, height >>
                         [] OTHER         -> << width * 2, height * 2 >>)
           : max_image \in {find_img_with_most_pixels(imgs)} })

\* par_iter().map(..).collect(): the output vector has one slot per input, and
\* the result for input i is written to slot i.
scale_all_images_to_same_size(image_array, target_width, target_height, pad) ==
    [i \in 1..Len(image_array) |->
        scale_image_iterable(image_array[i], target_width, target_height, pad)]

\* Overlays imgs left to right starting at x_offset, all at y_offset.
RECURSIVE layout_from(_, _, _, _)
layout_from(new_image, imgs, x_offset, y_offset) ==
    Only({ IF Len(rest) = 0 THEN canvas
           ELSE layout_from(overlay(canvas, rest[1], x, y_offset),
                            Tail(rest), x + rest[1].w, y_offset)
           : canvas \in {new_image}, rest \in {imgs}, x \in {x_offset} })

\* layout_horizontal dropping the vertical offset.
layout_horizontal_no_offset(new_image, imgs, y_offset) ==
    layout_from(new_image, imgs, 0, 0)

layout_horizontal(new_image, imgs, y_offset) ==
    layout_from(new_image, imgs, 0, y_offset)

\* The match without its catch-all arm: any number of images in one row.
layout_by_count_unlimited(imgs, scaled_images, new_image, total_width, top_img, pad) ==
    IF Len(scaled_images) = 0 THEN Err("EmptyImageArray")
    ELSE Ok(layout_horizontal(new_image, scaled_images, 0))

\* vec.len(): the number of slots of a vector, whatever they hold.
VecLen(vec) == Cardinality(DOMAIN vec)

\* The match on scaled_images.len() of combine_images.
layout_by_count(imgs, scaled_images, new_image, total_width, top_img, pad) ==
    CASE VecLen(scaled_images) = 0 -> Err("EmptyImageArray")
      [] VecLen(scaled_images) = 1 -> Ok(imgs[1])
      [] VecLen(scaled_images) = 2 -> Ok(layout_horizontal(new_image, scaled_images, 0))
      [] VecLen(scaled_images) = 3 ->
           Only({ LET top_row  == layout_horizontal(new_image,
                                                    SubSeq(scaled_images, 1, 2), 0)
                      rescaled == [scaled_images EXCEPT ![3] = processed_last_img[1]]
                  IN  Ok(layout_horizontal(top_row, SubSeq(rescaled, 3, 3),
                                           rescaled[1].h))
                  : processed_last_img \in
                      {scale_all_images_to_same_size(<< scaled_images[3] >>,
                                                     total_width, top_img.h, pad)} })
      [] VecLen(scaled_images) = 4 ->
           LET top_row == layout_horizontal(new_image, SubSeq(scaled_images, 1, 2), 0)
           IN  Ok(layout_horizontal(top_row, SubSeq(scaled_images, 3, 4),
                                    scaled_images[1].h))
      [] OTHER -> Err("TooManyImages")

\* combine_images scaling every image to the canvas size, not the reference's.
combine_images_scale_to_canvas(imgs, total_width, total_height, pad) ==
    IF Len(imgs) = 1 THEN Ok(imgs[1])
    ELSE Only({
           IF ~top.ok THEN Err(top.err)
           ELSE Only({ layout_by_count(imgs, scaled_images,
                                       new_rgba8(total_width, total_height),
                                       total_width, imgs[top.val], pad)
                       : scaled_images \in
                           {scale_all_images_to_same_size(imgs, total_width,
                                                          total_height, pad)} })
           : top \in {find_img_with_most_pixels(imgs)} })

combine_images(imgs, total_width, total_height, pad) ==
    IF Len(imgs) = 1 THEN Ok(imgs[1])
    ELSE Only({
           IF ~top.ok THEN Err(top.err)
           ELSE Only({ layout_by_count(imgs, scaled_images,
                                       new_rgba8(total_width, total_height),
                                       total_width, imgs[top.val], pad)
                       : scaled_images \in
                           {scale_all_images_to_same_size(imgs, imgs[top.val].w,
                                                          imgs[top.val].h, pad)} })
           : top \in {find_img_with_most_pixels(imgs)} })

(***************************************************************************)
(* State.                                                                  *)
(***************************************************************************)
VARIABLES
    images,      \* the input collection (a sequence of images)
    pc,          \* position in the call being modelled
    total_size,  \* generate_combined_thumbnail: the canvas size
    combined,    \* the foreground layer / the bitmap combine_images returns
    background,  \* the blurred background with the foreground overlaid
    thumbnail,   \* the encoded output
    err,         \* the error the call returned, "none" if none
    target,      \* << target_width, target_height >> of a scaling call
    pad,         \* the pad flag of a scaling or combining call
    slots,       \* the output vector of a parallel scaling call, by index
    parts,       \* the partial results of the parallel reduction, in order
    found        \* the result of find_img_with_most_pixels

vars == << images, pc, total_size, combined, background, thumbnail, err,
           target, pad, slots, parts, found >>

None == Image(0, 0, 0)

NoThumbnail == [format |-> "none", w |-> 0, h |-> 0]

\* All collections of n images with sides drawn from the set `sizes` of
\* << width, height >> pairs.
Collections(n, sizes) ==
    { [i \in 1..n |-> Image(d[i][1], d[i][2], i)] : d \in [1..n -> sizes] }

PipelineIdle ==
    /\ total_size = << 0, 0 >>
    /\ combined = None
    /\ background = None
    /\ thumbnail = NoThumbnail
    /\ err = "none"

ScalingIdle ==
    /\ target = << 0, 0 >>
    /\ pad = FALSE
    /\ slots = << >>

ReduceIdle ==
    /\ parts = << >>
    /\ found = Err("none")

(***************************************************************************)
(* Spec: generate_combined_thumbnail, statement by statement.              *)
(***************************************************************************)
MaxSide == 2

MaxImages == 5

Sizes == (1..MaxSide) \X (1..MaxSide)

\* The two scenarios of the specification's test list.
ScenarioInputs ==
    { << Image(800, 600, 1), Image(400, 300, 2) >>, << Image(300, 300, 1) >> }

\* Collections too long for any layout are drawn from two sizes of equal
\* pixel count.
LongSizes == { << 1, 2 >>, << 2, 1 >> }

MaxLayout == 4

Init ==
    /\ \/ \E n \in 0..MaxLayout : images \in Collections(n, Sizes)
       \/ \E n \in (MaxLayout + 1)..MaxImages : images \in Collections(n, LongSizes)
       \/ images \in ScenarioInputs
    /\ pc = "start"
    /\ PipelineIdle
    /\ ScalingIdle
    /\ ReduceIdle

\* let total_size = get_total_img_size(&images)?;
GetTotalImgSize ==
    /\ pc = "start"
    /\ \E r \in {get_total_img_size(images)} :
           IF r.ok
           THEN /\ total_size' = r.val
                /\ pc' = "sized"
                /\ err' = err
           ELSE /\ err' = r.err
                /\ pc' = "failed"
                /\ total_size' = total_size
    /\ UNCHANGED << images, combined, background, thumbnail, target, pad, slots,
                    parts, found >>

\* let combined = combine_images(&images, total_size.0, total_size.1, true)?;
CombineForeground ==
    /\ pc = "sized"
    /\ \E r \in {combine_images(images, total_size[1], total_size[2], TRUE)} :
           IF r.ok
           THEN /\ combined' = r.val
                /\ pc' = "foreground"
                /\ err' = err
           ELSE /\ err' = r.err
                /\ pc' = "failed"
                /\ combined' = combined
    /\ UNCHANGED << images, total_size, background, thumbnail, target, pad, slots,
                    parts, found >>

\* let mut background = combine_images(.., false)?.blur(50.0);
\* imageops::overlay(&mut background, &combined, 0, 0);
CombineBackground ==
    /\ pc = "foreground"
    /\ \E r \in {combine_images(images, total_size[1], total_size[2], FALSE)} :
           IF r.ok
           THEN /\ background' = overlay(blur(r.val, 50), combined, 0, 0)
                /\ pc' = "composed"
                /\ err' = err
           ELSE /\ err' = r.err
                /\ pc' = "failed"
                /\ background' = background
    /\ UNCHANGED << images, total_size, combined, thumbnail, target, pad, slots,
                    parts, found >>

\* CombinedThumbnail::new(background, ImageOutputFormat::Png)
CombinedThumbnail_new(image, format) ==
    [format |-> format, w |-> image.w, h |-> image.h]

\* let thumbnail = CombinedThumbnail::new(background, Png)?;  Ok(thumbnail)
Encode ==
    /\ pc = "composed"
    /\ thumbnail' = CombinedThumbnail_new(background, "Png")
    /\ pc' = "done"
    /\ UNCHANGED << images, total_size, combined, background, err, target, pad,
                    slots, parts, found >>

\* image.write_to fails (the encoder rejects the pixel layout, or the write
\* fails): the `?` returns ImageError.
EncodeFails ==
    /\ pc = "composed"
    /\ err' = "ImageError"
    /\ pc' = "failed"
    /\ UNCHANGED << images, total_size, combined, background, thumbnail, target,
                    pad, slots, parts, found >>

Next ==
    \/ GetTotalImgSize
    \/ CombineForeground
    \/ CombineBackground
    \/ Encode
    \/ EncodeFails

Spec == Init /\ [][Next]_vars

(***************************************************************************)
(* SpecReduce: find_img_with_most_pixels as rayon runs it.  The items are  *)
(* split into consecutive pieces; two neighbouring partial results are     *)
(* combined with max_key, the earlier piece as left operand, in whatever   *)
(* order the worker threads get to them.                                   *)
(***************************************************************************)
MaxReduce == 4

ReduceInit ==
    /\ \E n \in 0..MaxReduce : images \in Collections(n, Sizes)
    /\ parts = KeyedItems(images)
    /\ found = Err("none")
    /\ pc = "reducing"
    /\ PipelineIdle
    /\ ScalingIdle

ReduceStep ==
    /\ pc = "reducing"
    /\ \E i \in 1..(Len(parts) - 1) :
         parts' = SubSeq(parts, 1, i - 1)
                    \o << max_key(parts[i], parts[i + 1]) >>
                    \o SubSeq(parts, i + 2, Len(parts))
    /\ UNCHANGED << images, pc, total_size, combined, background, thumbnail, err,
                    target, pad, slots, found >>

\* .ok_or(ProcessingError::CouldNotFindMostPixels)
ReduceDone ==
    /\ pc = "reducing"
    /\ Len(parts) <= 1
    /\ found' = IF Len(parts) = 0 THEN Err("CouldNotFindMostPixels")
                ELSE Ok(parts[1][2])
    /\ pc' = "returned"
    /\ UNCHANGED << images, total_size, combined, background, thumbnail, err,
                    target, pad, slots, parts >>

ReduceNext == ReduceStep \/ ReduceDone

SpecReduce == ReduceInit /\ [][ReduceNext]_vars

(***************************************************************************)
(* SpecCombine: one call of combine_images with its scaling tasks running  *)
(* in parallel.  Each task scales its own image and writes its own slot of *)
(* the output vector; the layout runs when all tasks have finished.        *)
(***************************************************************************)
MaxTasks == 4

TaskSizes == { << 1, 2 >>, << 2, 1 >>, << 2, 2 >> }

CombineInit ==
    /\ \E n \in 1..MaxTasks : images \in Collections(n, TaskSizes)
    /\ pad \in BOOLEAN
    /\ total_size = get_total_img_size(images).val
    /\ pc = "call"
    /\ combined = None
    /\ background = None
    /\ thumbnail = NoThumbnail
    /\ err = "none"
    /\ target = << 0, 0 >>
    /\ slots = << >>
    /\ ReduceIdle

\* The early return for one image.
CombineSingle ==
    /\ pc = "call"
    /\ Len(images) = 1
    /\ combined' = images[1]
    /\ pc' = "returned"
    /\ UNCHANGED << images, total_size, background, thumbnail, err, target, pad,
                    slots, parts, found >>

\* find_img_with_most_pixels(images)? and the start of the scaling tasks.
CombineStart ==
    /\ pc = "call"
    /\ Len(images) # 1
    /\ found' = find_img_with_most_pixels(images)
    /\ IF found'.ok
       THEN /\ target' = << images[found'.val].w, images[found'.val].h >>
            /\ slots' = [i \in 1..Len(images) |-> None]
            /\ pc' = "scaling"
            /\ err' = err
       ELSE /\ err' = found'.err
            /\ pc' = "returned"
            /\ UNCHANGED << target, slots >>
    /\ UNCHANGED << images, total_size, combined, background, thumbnail, pad, parts >>

\* Results appended in the order the tasks finish.
CollectSlot_next_free(out, i, v) ==
    LET k == CHOOSE k \in 1..Len(out) :
                 out[k] = None /\ \A j \in 1..(k - 1) : out[j] # None
    IN  [out EXCEPT ![k] = v]

\* Where the result of task i goes in the output vector.
CollectSlot(out, i, v) == [out EXCEPT ![i] = v]

ScaleTask ==
    /\ pc = "scaling"
    /\ \E i \in 1..Len(images) :
         /\ slots[i] = None
         /\ slots' = CollectSlot(slots, i,
                       scale_image_iterable(images[i], target[1], target[2], pad))
    /\ UNCHANGED << images, pc, total_size, combined, background, thumbnail, err,
                    target, pad, parts, found >>

CombineLayout ==
    /\ pc = "scaling"
    /\ \A i \in 1..Len(slots) : slots[i] # None
    /\ \E r \in {layout_by_count(images, slots,
                                   new_rgba8(total_size[1], total_size[2]),
                                   total_size[1], images[found.val], pad)} :
           IF r.ok
           THEN combined' = r.val /\ err' = err
           ELSE err' = r.err /\ combined' = combined
    /\ pc' = "returned"
    /\ UNCHANGED << images, total_size, background, thumbnail, target, pad, slots,
                    parts, found >>

CombineNext == CombineSingle \/ CombineStart \/ ScaleTask \/ CombineLayout

SpecCombine == CombineInit /\ [][CombineNext]_vars

(***************************************************************************)
(* SpecScale: one call of scale_image_iterable, for every source size up   *)
(* to MaxDim and every target the engine can pass for it: the reference    *)
(* image's size (no smaller in area than the source) or, for the bottom    *)
(* row of three, twice the source's width at the source's height.          *)
(***************************************************************************)
MaxDim == 15

ScaleInit ==
    /\ \E w \in 1..MaxDim, h \in 1..MaxDim :
         /\ images = << Image(w, h, 1) >>
         /\ \E tw \in (1..MaxDim) \cup {2 * w}, th \in 1..MaxDim :
              /\ tw * th >= w * h
              /\ target = << tw, th >>
    /\ pad \in BOOLEAN
    /\ pc = "call"
    /\ slots = << None >>
    /\ PipelineIdle
    /\ ReduceIdle

ScaleImage ==
    /\ pc = "call"
    /\ slots' = << scale_image_iterable(images[1], target[1], target[2], pad) >>
    /\ pc' = "returned"
    /\ UNCHANGED << images, total_size, combined, background, thumbnail, err,
                    target, pad, parts, found >>

ScaleNext == ScaleImage

SpecScale == ScaleInit /\ [][ScaleNext]_vars

(***************************************************************************)
(* Properties.                                                             *)
(***************************************************************************)
PixelCount(i) == images[i].w * images[i].h

\* The last image, in input order, among those with the most pixels.
LastLargest ==
    CHOOSE i \in 1..Len(images) :
        /\ \A j \in 1..Len(images) : PixelCount(j) <= PixelCount(i)
        /\ \A j \in (i + 1)..Len(images) : PixelCount(j) < PixelCount(i)

RefW == images[LastLargest].w

RefH == images[LastLargest].h

\* Two images share the largest pixel count and differ in shape.
TiedLargest ==
    \E i, j \in 1..Len(images) :
        /\ i < j
        /\ PixelCount(i) = PixelCount(j)
        /\ \A k \in 1..Len(images) : PixelCount(k) <= PixelCount(i)
        /\ images[i].w # images[j].w

\* C1: for 1 to 4 images the canvas is (refW, refH), (2 refW, refH) or
\* (2 refW, 2 refH) by count, the reference image being the last of the
\* images with the most pixels.
C1_CanvasSize ==
    (pc # "start" /\ Len(images) \in 1..4) =>
        total_size = CASE Len(images) = 1 -> << RefW, RefH >>
                       [] Len(images) = 2 -> << 2 * RefW, RefH >>
                       [] OTHER           -> << 2 * RefW, 2 * RefH >>

C1_Witness ==
    /\ pc = "sized"
    /\ Len(images) = 3
    /\ TiedLargest
    /\ total_size = << 2 * RefW, 2 * RefH >>

\* C2: an empty collection makes generate_combined_thumbnail (and the
\* combine_images it calls) fail with EmptyImageArray.
C2_EmptyIsEmptyImageArray ==
    (pc = "failed" /\ Len(images) = 0) => err = "EmptyImageArray"

\* C3: five or more images make generate_combined_thumbnail fail with
\* TooManyImages, in combine_images, without producing a layer or a thumbnail.
C3_TooManyImages ==
    Len(images) >= 5 =>
        /\ pc \in {"start", "sized", "failed"}
        /\ pc = "failed" => err = "TooManyImages"
        /\ combined = None
        /\ background = None
        /\ thumbnail = NoThumbnail

C3_Witness ==
    /\ Len(images) = 5
    /\ pc = "failed"
    /\ err = "TooManyImages"
    /\ total_size = << 2 * RefW, 2 * RefH >>

\* C4: however the parallel reduction splits the input and pairs the partial
\* results, find_img_with_most_pixels returns the last image among those
\* with the most pixels.
C4_ReductionOrderFree ==
    (pc = "returned" /\ Len(images) >= 1) => found = Ok(LastLargest)

C4_Witness ==
    /\ pc = "returned"
    /\ Len(images) = 4
    /\ TiedLargest
    /\ found = Ok(LastLargest)
    /\ LastLargest < 4

\* C5: whatever order the scaling tasks finish in, slot i of the result holds
\* the scaled i-th input, and the layout places the images in input order:
\* 1 left of 2 in the top row, 3 (left of 4) in the bottom row.
C5_InputOrderKept ==
    /\ \A i \in 1..Len(slots) :
         slots[i] # None =>
            /\ slots[i].tag = i
            /\ slots[i].steps[1].from = << images[i].w, images[i].h >>
            /\ << slots[i].w, slots[i].h >> = target
    /\ (pc = "returned" /\ Len(images) \in 2..4) =>
         /\ Len(combined.layers) = Len(images)
         /\ \A k \in 1..Len(images) : combined.layers[k].img.tag = k
         /\ combined.layers[1].y = 0 /\ combined.layers[2].y = 0
         /\ combined.layers[1].x < combined.layers[2].x
         /\ \A k \in 3..Len(images) : combined.layers[k].y > 0
         /\ Len(images) = 4 => combined.layers[3].x < combined.layers[4].x

\* Task 4 has finished before task 1, and its result is in slot 4.
C5_Witness ==
    /\ pc = "scaling"
    /\ Len(images) = 4
    /\ slots[1] = None
    /\ slots[4] # None
    /\ slots[4].tag = 4

\* The resize and pad steps of the bitmap a Letterbox call returned.
ResizeStep == slots[1].steps[1]

PadStep == slots[1].steps[2]

Letterboxed == pc = "returned" /\ pad /\ Len(slots) = 1 /\ Len(images) = 1

\* C6: Letterbox scaling returns a bitmap of exactly the target size; the
\* scaled size exceeds the target on neither axis, and the scaled image sits
\* at floor((target - scaled) / 2) on each axis.
C6_LetterboxFits ==
    Letterboxed =>
        /\ << slots[1].w, slots[1].h >> = target
        /\ ResizeStep.to[1] <= target[1]
        /\ ResizeStep.to[2] <= target[2]
        /\ PadStep.from = ResizeStep.to
        /\ PadStep.at = << (target[1] - ResizeStep.to[1]) \div 2,
                           (target[2] - ResizeStep.to[2]) \div 2 >>

\* An odd margin, so that the floor matters.
C6_Witness ==
    /\ Letterboxed
    /\ (target[2] - ResizeStep.to[2]) % 2 = 1
    /\ PadStep.at[2] >= 1
    /\ PadStep.at[1] = 0

Abs(n) == IF n < 0 THEN -n ELSE n

\* C7: in Letterbox scaling one axis of the scaled size is the target's (the
\* width when sw/sh > tw/th, else the height) and the other is within one
\* pixel of the proportional size.
C7_AspectWithinOnePixel ==
    Letterboxed =>
        LET sw == images[1].w
            sh == images[1].h
            nw == ResizeStep.to[1]
            nh == ResizeStep.to[2]
        IN  IF sw * target[2] > target[1] * sh
            THEN nw = target[1] /\ Abs(nh * sw - target[1] * sh) <= sw
            ELSE nh = target[2] /\ Abs(nw * sh - target[2] * sw) <= sh

\* A width-bound case whose proportional height is not a whole number.
C7_Witness ==
    /\ Letterboxed
    /\ images[1].w * target[2] > target[1] * images[1].h
    /\ (target[1] * images[1].h) % images[1].w # 0
    /\ ResizeStep.to[2] >= 1
    /\ ResizeStep.to[2] < target[2]

\* The layers of the background before the foreground was laid over it.
BackgroundLayers == SubSeq(background.layers, 1, Len(background.layers) - 1)

ThirdRowPlaced(layers) ==
    /\ Len(layers) = 3
    /\ << layers[1].x, layers[1].y >> = << 0, 0 >>
    /\ << layers[2].x, layers[2].y >> = << RefW, 0 >>
    /\ << layers[3].x, layers[3].y >> = << 0, RefH >>
    /\ << layers[3].img.w, layers[3].img.h >> = << 2 * RefW, RefH >>
    /\ layers[3].img.w = total_size[1]
    /\ layers[3].img.tag = 3

\* C8: with three images, under either policy, the third image's bitmap is
\* as wide as the canvas (2 refW) and refH high, and sits at (0, refH), under
\* the top pair at (0, 0) and (refW, 0).
C8_ThirdRow ==
    Len(images) = 3 =>
        /\ pc \in {"foreground", "composed", "done"} => ThirdRowPlaced(combined.layers)
        /\ pc \in {"composed", "done"} => ThirdRowPlaced(BackgroundLayers)

C8_Witness ==
    /\ Len(images) = 3
    /\ pc = "composed"
    /\ images[3].w # RefW
    /\ ThirdRowPlaced(combined.layers)
    /\ ThirdRowPlaced(BackgroundLayers)

\* C9: for 1 to 4 images both layers and the encoded output have the canvas
\* size; for one image both layers are the original, not resized, and the
\* output is the original laid at (0, 0) over a blurred copy of itself.
C9_LayersHaveCanvasSize ==
    Len(images) \in 1..4 =>
        /\ pc \in {"foreground", "composed", "done"} =>
             << combined.w, combined.h >> = total_size
        /\ pc \in {"composed", "done"} =>
             << background.w, background.h >> = total_size
        /\ pc = "done" =>
             /\ << thumbnail.w, thumbnail.h >> = total_size
             /\ thumbnail.format = "Png"
        /\ (Len(images) = 1 /\ pc \in {"foreground", "composed", "done"}) =>
             combined = images[1]
        /\ (Len(images) = 1 /\ pc \in {"composed", "done"}) =>
             /\ background.tag = 1
             /\ Len(background.steps) = 1
             /\ background.steps[1].op = "blur"
             /\ background.layers = << [img |-> images[1], x |-> 0, y |-> 0] >>

C9_Witness ==
    /\ Len(images) = 1
    /\ pc = "done"
    /\ << thumbnail.w, thumbnail.h >> = << 300, 300 >>
    /\ combined = images[1]

\* C10: a source with the target's aspect ratio is scaled by Letterbox to
\* exactly the target size, with no padding on either axis.
C10_SameAspectFillsTarget ==
    (Letterboxed /\ images[1].w * target[2] = target[1] * images[1].h) =>
        /\ ResizeStep.to = target
        /\ PadStep.at = << 0, 0 >>

\* The part of a bitmap that shows its input image, as fractions of a pixel:
\* it starts at (xn / xd, yn / yd) and is wn / xd wide and hn / yd high.
StepRegion(region, step) ==
    Only({ CASE s.op = "resize" ->
                  [xn |-> r.xn * s.to[1], wn |-> r.wn * s.to[1], xd |-> r.xd * s.from[1],
                   yn |-> r.yn * s.to[2], hn |-> r.hn * s.to[2], yd |-> r.yd * s.from[2]]
             [] s.op = "pad" ->
                  [r EXCEPT !.xn = @ + s.at[1] * r.xd, !.yn = @ + s.at[2] * r.yd]
             [] OTHER -> r
           : r \in {region}, s \in {step} })

RECURSIVE RegionAfter(_, _)
RegionAfter(region, steps) ==
    Only({ IF Len(ss) = 0 THEN r
           ELSE RegionAfter(StepRegion(r, ss[1]), Tail(ss))
           : r \in {region}, ss \in {steps} })

ContentRegion(bitmap) ==
    Only({ RegionAfter([xn |-> 0, wn |-> b.steps[1].from[1], xd |-> 1,
                        yn |-> 0, hn |-> b.steps[1].from[2], yd |-> 1], b.steps)
           : b \in {bitmap} })

SameRegion(p, q) ==
    Only({ /\ a.xn * b.xd = b.xn * a.xd
           /\ a.wn * b.xd = b.wn * a.xd
           /\ a.yn * b.yd = b.yn * a.yd
           /\ a.hn * b.yd = b.hn * a.yd
           : a \in {p}, b \in {q} })

\* C11: with three images, the bottom-row bitmap of the Letterbox layer shows
\* the third image where letterboxing the original third image directly to
\* (canvas width, refH) would show it: same content size, same offsets.
C11_ThirdLetterboxedDirectly ==
    (Len(images) = 3 /\ pc \in {"foreground", "composed", "done"}) =>
        SameRegion(ContentRegion(combined.layers[3].img),
                   ContentRegion(scale_image_iterable(images[3], total_size[1],
                                                      RefH, TRUE)))

\* The rectangle a placed bitmap occupies lies inside the canvas.
InsideCanvas(l) ==
    /\ l.x >= 0
    /\ l.y >= 0
    /\ l.x + l.img.w <= total_size[1]
    /\ l.y + l.img.h <= total_size[2]

\* The rectangles of two placed bitmaps share no pixel.
Disjoint(a, b) ==
    \/ a.x + a.img.w <= b.x
    \/ b.x + b.img.w <= a.x
    \/ a.y + a.img.h <= b.y
    \/ b.y + b.img.h <= a.y

RECURSIVE AreaSum(_)
AreaSum(layers) ==
    IF Len(layers) = 0 THEN 0
    ELSE layers[1].img.w * layers[1].img.h + AreaSum(Tail(layers))

\* Rectangles inside the canvas that are pairwise disjoint cover every canvas
\* pixel exactly when their areas add up to the canvas's.
TilesCanvas(layers) ==
    /\ \A k \in 1..Len(layers) : InsideCanvas(layers[k])
    /\ \A j, k \in 1..Len(layers) : j < k => Disjoint(layers[j], layers[k])
    /\ AreaSum(layers) = total_size[1] * total_size[2]

\* The step of a placed bitmap that ends its first scaling call: the pad step
\* under Letterbox, the resize itself under Stretch.
FirstScaling(img) ==
    IF img.steps[1].filter = "Lanczos3" THEN img.steps[2] ELSE img.steps[1]

\* Layer k holds input k, scaled from its original size to (refW, refH).
ScaledToReference(layers) ==
    \A k \in 1..Len(layers) :
        /\ layers[k].img.tag = k
        /\ layers[k].img.steps[1].from = << images[k].w, images[k].h >>
        /\ FirstScaling(layers[k].img).to = << RefW, RefH >>

GridPlaced(layers) ==
    /\ Len(layers) = Len(images)
    /\ Len(images) # 3 =>
         \A k \in 1..Len(layers) :
            /\ << layers[k].img.w, layers[k].img.h >> = << RefW, RefH >>
            /\ layers[k].x = (IF k % 2 = 1 THEN 0 ELSE RefW)
            /\ layers[k].y = (IF k <= 2 THEN 0 ELSE RefH)

\* Stretch introduces no transparent pixel: no bitmap of the layer was padded.
FullCoverage(layers) ==
    \A k \in 1..Len(layers) :
        \A i \in 1..Len(layers[k].img.steps) : layers[k].img.steps[i].op = "resize"

\* C12: for 2, 3 or 4 images and either policy every image is scaled to
\* (refW, refH), and the placed bitmaps lie inside the canvas, are pairwise
\* disjoint and cover it (2: (0,0), (refW,0); 4: the 2x2 grid); the Stretch
\* background therefore leaves no canvas pixel uncovered.
C12_PlacementsTileCanvas ==
    Len(images) \in 2..4 =>
        /\ pc \in {"foreground", "composed", "done"} =>
             /\ ScaledToReference(combined.layers)
             /\ GridPlaced(combined.layers)
             /\ TilesCanvas(combined.layers)
        /\ pc \in {"composed", "done"} =>
             /\ ScaledToReference(BackgroundLayers)
             /\ GridPlaced(BackgroundLayers)
             /\ TilesCanvas(BackgroundLayers)
             /\ FullCoverage(BackgroundLayers)

\* Four images of which the first is smaller than the reference and of
\* another shape, both layers composed.
C12_Witness ==
    /\ Len(images) = 4
    /\ pc = "composed"
    /\ images[1].w * RefH # RefW * images[1].h
    /\ PixelCount(1) < PixelCount(LastLargest)
    /\ TilesCanvas(combined.layers)
    /\ TilesCanvas(BackgroundLayers)
    /\ FullCoverage(BackgroundLayers)
    /\ combined.layers[4].x = RefW /\ combined.layers[4].y = RefH

\* C13: in Letterbox scaling the width and height passed to the resizer are
\* both at least 1, for every source and target with sides of at least 1.
C13_ScaledSizePositive ==
    (Letterboxed /\ images[1].w >= 1 /\ images[1].h >= 1
                 /\ target[1] >= 1 /\ target[2] >= 1) =>
        /\ ResizeStep.to[1] >= 1
        /\ ResizeStep.to[2] >= 1

====
